---------------------------- MODULE Spec2Model ----------------------------
(***************************************************************************)
(* A model of the audio controller of src/main.rs: the AudioApp state,     *)
(* its methods (new, update_volume, set_volume, toggle_mute,               *)
(* set_default_device, refresh_devices, set_default_device_by_name and the *)
(* two switch strategies), the steps of the eframe update handler that     *)
(* call them, the spawned PowerShell process that runs the shell           *)
(* strategies, and the operating system's master session as other          *)
(* processes change it.                                                    *)
(*                                                                         *)
(* Conventions.  An Option is a sequence of length at most one: None is    *)
(* <<>> and Some(x) is <<x>>.  A device name is a sequence of one-character*)
(* strings.  Indices into device_names are 0-based as in the source, so    *)
(* the source's device_names[idx] is device_names[idx + 1] here.  An f32   *)
(* volume is an integer number of hundredths (0.5 is 50, 1.5 is 150).      *)
(* The variable last records the last event: the operation that ran, its   *)
(* inputs and what the operating system answered to it.                    *)
(***************************************************************************)
EXTENDS Integers, Sequences, FiniteSets, TLC

VARIABLES
    phase,                \* "Uninitialized", "Ready" or "Closed"
    device_names,         \* AudioApp.device_names
    selected_device_idx,  \* AudioApp.selected_device_idx
    volume,               \* AudioApp.volume
    is_muted,             \* AudioApp.is_muted
    audio_controller,     \* AudioApp.audio_controller
    os_volume,            \* the master session's volume, held by the OS
    os_muted,             \* the master session's mute state, held by the OS
    com_inits,            \* how many times COM has been initialized
    procs,                \* the spawned PowerShell processes still running
    pc,                   \* where the update handler is within a redraw tick
    last                  \* the last event

vars == <<phase, device_names, selected_device_idx, volume, is_muted,
          audio_controller, os_volume, os_muted, com_inits, procs, pc, last>>

appVars == <<device_names, selected_device_idx, volume, is_muted, audio_controller>>

(***************************************************************************)
(* Bounds of the model.                                                    *)
(***************************************************************************)
MaxDevices == 2

MaxNameLen == 3

MaxComInits == 3

(***************************************************************************)
(* Option values.                                                          *)
(***************************************************************************)
None == <<>>

Some(x) == <<x>>

IsSome(o) == Len(o) = 1

Unwrap(o) == o[1]

(***************************************************************************)
(* Device names and what the OS can answer to an enumeration.              *)
(***************************************************************************)
Speakers == <<"S", "p", "e", "a", "k", "e", "r", "s">>

Headphones == <<"H", "e", "a", "d", "p", "h", "o", "n", "e", "s">>

DeviceNames == {Speakers, Headphones}

\* What Device::name() answers: Some(name), or None when it fails.
NameResults(names) == {Some(n) : n \in names} \cup {None}

SeqsUpTo(S, n) == UNION {[1..k -> S] : k \in 0..n}

\* What Host::output_devices() answers: an error, or the devices in the
\* OS's enumeration order, each with the answer of its name().
Enumerations(names) ==
    {[ok |-> FALSE, devices |-> <<>>]}
      \cup {[ok |-> TRUE, devices |-> d] : d \in SeqsUpTo(NameResults(names), MaxDevices)}

\* What Host::default_output_device() and its name() answer.
DefaultNames(names) == NameResults(names)

(***************************************************************************)
(* Volumes, in hundredths.                                                 *)
(***************************************************************************)
DefaultVolume == 50

MinVolume == 0

MaxVolume == 100

\* The values another process sets the master volume to.
OsVolumes == {0, 30}

\* The values set_volume is called with.
VolumeInputs == {-50, 70, 100, 150}

\* The values the slider, whose range is 0.0..=1.0, is moved to.
SliderValues == {0, 70}

(***************************************************************************)
(* String operations of set_default_device_powershell.                     *)
(***************************************************************************)
RECURSIVE replace(_, _, _)
\* str::replace(from, to) for a one-character pattern: every occurrence of
\* the character from, left to right, becomes the characters of to.
replace(s, from, to) ==
    IF s = <<>> THEN <<>>
    ELSE (IF Head(s) = from THEN to ELSE <<Head(s)>>) \o replace(Tail(s), from, to)

\* The literal text of the three format strings, before and after the
\* interpolated device name (one token per literal piece).
Cmd1Prefix ==
    "if (Get-Command Get-AudioDevice -ErrorAction SilentlyContinue) { Get-AudioDevice -List | Where-Object { $_.Name -eq "

Cmd1Suffix == " } | Set-AudioDevice }"

Cmd2Prefix ==
    "if (Test-Path 'C:\\Windows\\SoundVolumeView.exe') { C:\\Windows\\SoundVolumeView.exe /SetDefault "

Cmd2Suffix == " all }"

Cmd3Prefix ==
    "$devices = Get-WmiObject -Class Win32_SoundDevice; foreach ($device in $devices) { if ($device.Name -like "

Cmd3Suffix == ") { $device.SetDefault() } }"

CmdSeparator == " ; "

\* format!("... -eq '{}' ...", device_name.replace("'", "''"))
ps_command1(device_name) ==
    <<Cmd1Prefix, "'">> \o replace(device_name, "'", <<"'", "'">>) \o <<"'", Cmd1Suffix>>

\* format!("... /SetDefault \"{}\" all ...", device_name.replace("\"", "\\\""))
ps_command2(device_name) ==
    <<Cmd2Prefix, "\"">> \o replace(device_name, "\"", <<"\\", "\"">>) \o <<"\"", Cmd2Suffix>>

\* format!("... -like '*{}*' ...", device_name.replace("'", "''"))
ps_command3(device_name) ==
    <<Cmd3Prefix, "'", "*">> \o replace(device_name, "'", <<"'", "'">>)
        \o <<"*", "'", Cmd3Suffix>>

\* format!("{} ; {} ; {}", ps_command1, ps_command2, ps_command3)
full_command(device_name) ==
    ps_command1(device_name) \o <<CmdSeparator>> \o ps_command2(device_name)
        \o <<CmdSeparator>> \o ps_command3(device_name)

(***************************************************************************)
(* AudioApp::new, with what the OS answers: the enumeration of the output  *)
(* devices, the default output device's name and whether the "master"      *)
(* session is found.                                                       *)
(***************************************************************************)
\* devices.iter().filter_map(|device| device.name().ok()).collect()
ResolvedNames(devices) == SelectSeq(devices, IsSome)

\* position answering the last matching index instead of the first.
position_last(names, wanted) ==
    IF \E i \in 1..Len(names) : names[i] = wanted
    THEN Some((CHOOSE i \in 1..Len(names) :
                  /\ names[i] = wanted
                  /\ \A j \in (i + 1)..Len(names) : names[j] # wanted) - 1)
    ELSE None

\* device_names.iter().position(|name| name == &default_name)
position(names, wanted) ==
    IF \E i \in 1..Len(names) : names[i] = wanted
    THEN Some((CHOOSE i \in 1..Len(names) :
                  /\ names[i] = wanted
                  /\ \A j \in 1..(i - 1) : names[j] # wanted) - 1)
    ELSE None

\* The enumeration collected as a whole: one name that does not resolve
\* fails it all, leaving no names.
EnumeratedNames_all_or_nothing(enum) ==
    LET resolved == ResolvedNames(IF enum.ok THEN enum.devices ELSE <<>>)
    IN  IF Len(resolved) = Len(enum.devices)
        THEN [i \in 1..Len(resolved) |-> Unwrap(resolved[i])]
        ELSE <<>>

EnumeratedNames(enum) ==
    LET resolved == ResolvedNames(IF enum.ok THEN enum.devices ELSE <<>>)
    IN  [i \in 1..Len(resolved) |-> Unwrap(resolved[i])]

new(enum, default_device_name, found) ==
    /\ device_names' = EnumeratedNames(enum)
    /\ selected_device_idx' =
          IF IsSome(default_device_name)
          THEN position(EnumeratedNames(enum), Unwrap(default_device_name))
          ELSE None
    /\ volume' = IF found THEN os_volume ELSE DefaultVolume
    /\ is_muted' = IF found THEN os_muted ELSE FALSE
    /\ audio_controller' = Some("AudioController")
    /\ com_inits' = com_inits + 1
    /\ UNCHANGED <<os_volume, os_muted, procs>>

(***************************************************************************)
(* The volume and mute methods.  found tells whether                       *)
(* controller.get_session_by_name("master") answers Some(session).         *)
(***************************************************************************)
\* update_volume falling back to the defaults of new when the session is
\* not found.
update_volume_resets(found) ==
    /\ IF IsSome(audio_controller) /\ found
       THEN /\ volume' = os_volume
            /\ is_muted' = os_muted
       ELSE /\ volume' = DefaultVolume
            /\ is_muted' = FALSE
    /\ UNCHANGED <<device_names, selected_device_idx, audio_controller,
                   os_volume, os_muted, com_inits, procs>>

update_volume(found) ==
    /\ IF IsSome(audio_controller) /\ found
       THEN /\ volume' = os_volume
            /\ is_muted' = os_muted
       ELSE UNCHANGED <<volume, is_muted>>
    /\ UNCHANGED <<device_names, selected_device_idx, audio_controller,
                   os_volume, os_muted, com_inits, procs>>

Clamp(v) == IF v < MinVolume THEN MinVolume ELSE IF v > MaxVolume THEN MaxVolume ELSE v

\* session.setVolume(volume): the OS stores a value of the range; for a
\* value outside it the OS either rejects the call or stores the nearest
\* value of the range, and the method's caller is told neither.
SessionSetVolume(v) ==
    IF v \in MinVolume..MaxVolume THEN {v} ELSE {os_volume, Clamp(v)}

\* self.volume after set_volume(v), entered with self.volume = cur.
SetVolumeCache(cur, v, found) ==
    IF IsSome(audio_controller) /\ found THEN v ELSE cur

\* The session's volume after set_volume(v).
SetVolumeSession(v, found) ==
    IF IsSome(audio_controller) /\ found THEN SessionSetVolume(v) ELSE {os_volume}

set_volume(v, found) ==
    /\ volume' = SetVolumeCache(volume, v, found)
    /\ os_volume' \in SetVolumeSession(v, found)
    /\ UNCHANGED <<device_names, selected_device_idx, is_muted, audio_controller,
                   os_muted, com_inits, procs>>

\* toggle_mute flipping the cached flag instead of the session's mute state.
toggle_mute_from_cache(found) ==
    /\ IF IsSome(audio_controller) /\ found
       THEN LET new_mute_state == ~is_muted
            IN  /\ os_muted' = new_mute_state
                /\ is_muted' = new_mute_state
       ELSE UNCHANGED <<os_muted, is_muted>>
    /\ UNCHANGED <<device_names, selected_device_idx, volume, audio_controller,
                   os_volume, com_inits, procs>>

toggle_mute(found) ==
    /\ IF IsSome(audio_controller) /\ found
       THEN LET new_mute_state == ~os_muted
            IN  /\ os_muted' = new_mute_state
                /\ is_muted' = new_mute_state
       ELSE UNCHANGED <<os_muted, is_muted>>
    /\ UNCHANGED <<device_names, selected_device_idx, volume, audio_controller,
                   os_volume, com_inits, procs>>

(***************************************************************************)
(* The device methods.                                                     *)
(***************************************************************************)
\* refresh_devices selecting the first device when the selection is no
\* longer valid.
refresh_devices_selects_first(enum) ==
    /\ device_names' = EnumeratedNames(enum)
    /\ selected_device_idx' =
          IF IsSome(selected_device_idx)
               /\ Unwrap(selected_device_idx) >= Len(EnumeratedNames(enum))
          THEN (IF Len(EnumeratedNames(enum)) > 0 THEN Some(0) ELSE None)
          ELSE selected_device_idx
    /\ UNCHANGED <<volume, is_muted, audio_controller, os_volume, os_muted,
                   com_inits, procs>>

\* refresh_devices with the bound of its check off by one (idx > len).
refresh_devices_off_by_one(enum) ==
    /\ device_names' = EnumeratedNames(enum)
    /\ selected_device_idx' =
          IF IsSome(selected_device_idx)
               /\ Unwrap(selected_device_idx) > Len(EnumeratedNames(enum))
          THEN None
          ELSE selected_device_idx
    /\ UNCHANGED <<volume, is_muted, audio_controller, os_volume, os_muted,
                   com_inits, procs>>

refresh_devices(enum) ==
    /\ device_names' = EnumeratedNames(enum)
    /\ selected_device_idx' =
          IF IsSome(selected_device_idx)
               /\ Unwrap(selected_device_idx) >= Len(EnumeratedNames(enum))
          THEN None
          ELSE selected_device_idx
    /\ UNCHANGED <<volume, is_muted, audio_controller, os_volume, os_muted,
                   com_inits, procs>>

\* set_default_device_winapi answering Ok(()) after CoInitialize.
set_default_device_winapi_succeeds(device_name) ==
    [com_inits |-> com_inits + 1, result |-> "Ok"]

\* set_default_device_winapi: CoInitialize, then Err("Using PowerShell fallback").
set_default_device_winapi(device_name) ==
    [com_inits |-> com_inits + 1, result |-> "Err"]

\* A PowerShell process just spawned with -Command full_command.  ret is
\* what the switch call returned to its caller.
SpawnedProcess(device_name) ==
    [name |-> device_name, command |-> full_command(device_name), ret |-> "()"]

\* set_default_device_powershell waiting for the process to end before it
\* returns: no process is left running.
set_default_device_powershell_waits(device_name, spawned) ==
    procs' = procs

\* spawned tells whether Command::spawn() answers Ok; its result is dropped.
set_default_device_powershell(device_name, spawned) ==
    procs' = IF spawned THEN Append(procs, SpawnedProcess(device_name)) ELSE procs

set_default_device_by_name(device_name, spawned) ==
    LET native == set_default_device_winapi(device_name)
    IN  /\ com_inits' = native.com_inits
        /\ IF native.result = "Err"
           THEN set_default_device_powershell(device_name, spawned)
           ELSE UNCHANGED procs

\* set_default_device with the bound of its check off by one (idx > len),
\* the name looked up with a default for a missing entry.
set_default_device_off_by_one(device_idx, spawned) ==
    /\ IF device_idx > Len(device_names)
       THEN UNCHANGED <<com_inits, procs>>
       ELSE set_default_device_by_name(
                IF device_idx < Len(device_names) THEN device_names[device_idx + 1] ELSE <<>>,
                spawned)
    /\ UNCHANGED <<device_names, selected_device_idx, volume, is_muted,
                   audio_controller, os_volume, os_muted>>

set_default_device(device_idx, spawned) ==
    /\ IF device_idx >= Len(device_names)
       THEN UNCHANGED <<com_inits, procs>>
       ELSE set_default_device_by_name(device_names[device_idx + 1], spawned)
    /\ UNCHANGED <<device_names, selected_device_idx, volume, is_muted,
                   audio_controller, os_volume, os_muted>>

\* Whether a call of set_default_device_by_name fits the model's bound on
\* the number of COM initializations.
CanSwitch == com_inits < MaxComInits

(***************************************************************************)
(* The spawned PowerShell process runs full_command, three statements      *)
(* joined by ";", each run whatever the one before it did: strategy 2 is   *)
(* attempted if Get-Command finds Get-AudioDevice, strategy 3 if Test-Path *)
(* finds SoundVolumeView.exe, strategy 4 always.  The outcome of a         *)
(* statement is "unavailable" (its guard is false: not attempted),         *)
(* "failed" or "success".  outcomes[1], [2] and [3] are those of           *)
(* strategies 2, 3 and 4.                                                  *)
(***************************************************************************)
GuardedOutcomes == {"unavailable", "failed", "success"}

UnguardedOutcomes == {"failed", "success"}

RemoveAt(s, i) == SubSeq(s, 1, i - 1) \o SubSeq(s, i + 1, Len(s))

RunCommand(i, outcomes) ==
    /\ procs' = RemoveAt(procs, i)
    /\ last' = [op |-> "powershell", name |-> procs[i].name,
                command |-> procs[i].command, ret |-> procs[i].ret,
                outcomes |-> outcomes]
    /\ UNCHANGED <<phase, appVars, os_volume, os_muted, com_inits, pc>>

ProcessRuns ==
    \E i \in 1..Len(procs) :
        \E o2 \in GuardedOutcomes, o3 \in GuardedOutcomes, o4 \in UnguardedOutcomes :
            RunCommand(i, <<o2, o3, o4>>)

(***************************************************************************)
(* Other processes change the master session.                              *)
(***************************************************************************)
OsSetVolume ==
    /\ \E v \in OsVolumes : v # os_volume /\ os_volume' = v
    /\ last' = [op |-> "os_set_volume"]
    /\ UNCHANGED <<phase, appVars, os_muted, com_inits, procs, pc>>

OsSetMute ==
    /\ os_muted' = ~os_muted
    /\ last' = [op |-> "os_set_mute"]
    /\ UNCHANGED <<phase, appVars, os_volume, com_inits, procs, pc>>

(***************************************************************************)
(* Construction (main: AudioApp::new()).                                   *)
(***************************************************************************)
New(enum, default_device_name, found) ==
    /\ phase = "Uninitialized"
    /\ new(enum, default_device_name, found)
    /\ phase' = "Ready"
    /\ last' = [op |-> "new", enum |-> enum, default |-> default_device_name,
                found |-> found]
    /\ UNCHANGED pc

(***************************************************************************)
(* The methods called one at a time, between redraw ticks.                 *)
(***************************************************************************)
Idle == phase = "Ready" /\ pc = "idle"

\* The event of a toggle_mute call.  n counts the calls that found the
\* session and followed one another with no other event in between, up to
\* two; os0 and cache0 are the OS's and the cached mute state before the
\* first of them.
ToggleEvent(ui, found) ==
    LET second == /\ last.op = "toggle_mute"
                  /\ last.found
                  /\ last.n = 1
                  /\ found
    IN  [op |-> "toggle_mute", ui |-> ui, found |-> found, ret |-> "()",
         n |-> IF second THEN 2 ELSE IF found THEN 1 ELSE 0,
         os0 |-> IF second THEN last.os0 ELSE os_muted,
         cache0 |-> IF second THEN last.cache0 ELSE is_muted]

CallUpdateVolume(found) ==
    /\ Idle
    /\ update_volume(found)
    /\ last' = [op |-> "update_volume", ui |-> FALSE, found |-> found,
                cache_before |-> <<volume, is_muted>>, ret |-> "()"]
    /\ UNCHANGED <<phase, pc>>

CallSetVolume(v, found) ==
    /\ Idle
    /\ set_volume(v, found)
    /\ last' = [op |-> "set_volume", ui |-> FALSE, v |-> v, found |-> found,
                ret |-> "()"]
    /\ UNCHANGED <<phase, pc>>

CallToggleMute(found) ==
    /\ Idle
    /\ toggle_mute(found)
    /\ last' = ToggleEvent(FALSE, found)
    /\ UNCHANGED <<phase, pc>>

CallRefreshDevices(enum) ==
    /\ Idle
    /\ refresh_devices(enum)
    /\ last' = [op |-> "refresh_devices", ui |-> FALSE, enum |-> enum,
                selection_before |-> selected_device_idx]
    /\ UNCHANGED <<phase, pc>>

CallSetDefaultDevice(device_idx, spawned) ==
    /\ Idle
    /\ device_idx < Len(device_names) => CanSwitch
    /\ set_default_device(device_idx, spawned)
    /\ last' = [op |-> "set_default_device", ui |-> FALSE, idx |-> device_idx,
                spawned |-> spawned, ret |-> "()"]
    /\ UNCHANGED <<phase, pc>>

(***************************************************************************)
(* The update handler (eframe::App::update), one redraw tick: it calls     *)
(* update_volume, then lays out the title bar (close and refresh buttons), *)
(* the device combo box, the mute button and the volume slider, in this    *)
(* order; each widget acts on the user's input of this tick.  Other        *)
(* processes run between the steps.                                        *)
(***************************************************************************)
\* The handler starting a tick without update_volume.
UiBegin_without_refresh(found) ==
    /\ Idle
    /\ pc' = "title"
    /\ last' = [op |-> "no_input", widget |-> "begin"]
    /\ UNCHANGED <<phase, appVars, os_volume, os_muted, com_inits, procs>>

UiBegin(found) ==
    /\ Idle
    /\ update_volume(found)
    /\ pc' = "title"
    /\ last' = [op |-> "update_volume", ui |-> TRUE, found |-> found,
                cache_before |-> <<volume, is_muted>>, ret |-> "()"]
    /\ UNCHANGED phase

\* std::process::exit(0)
UiCloseButton ==
    /\ phase = "Ready"
    /\ pc = "title"
    /\ phase' = "Closed"
    /\ last' = [op |-> "exit"]
    /\ UNCHANGED <<appVars, os_volume, os_muted, com_inits, procs, pc>>

UiRefreshButton(clicked, enum) ==
    /\ phase = "Ready"
    /\ pc = "title"
    /\ IF clicked
       THEN /\ refresh_devices(enum)
            /\ last' = [op |-> "refresh_devices", ui |-> TRUE, enum |-> enum,
                        selection_before |-> selected_device_idx]
       ELSE /\ last' = [op |-> "no_input", widget |-> "refresh"]
            /\ UNCHANGED <<appVars, os_volume, os_muted, com_inits, procs>>
    /\ pc' = "combo"
    /\ UNCHANGED phase

\* The rows of the combo box the user can click: one per device name.
ComboClicks == {None} \cup {Some(idx) : idx \in 0..(Len(device_names) - 1)}

\* selected_text indexes self.device_names[idx] with the selection, which
\* panics when the index is out of bounds; selectable_value stores the
\* clicked row in self.selected_device_idx, and the handler then switches
\* to the device of that row.
UiComboBox(click, spawned) ==
    /\ phase = "Ready"
    /\ pc = "combo"
    /\ IF IsSome(selected_device_idx)
            /\ Unwrap(selected_device_idx) >= Len(device_names)
       THEN /\ phase' = "Panicked"
            /\ last' = [op |-> "panic"]
            /\ UNCHANGED <<appVars, os_volume, os_muted, com_inits, procs, pc>>
       ELSE /\ click \in ComboClicks
            /\ IF IsSome(click)
               THEN /\ CanSwitch
                    /\ selected_device_idx' = click
                    /\ set_default_device_by_name(device_names[Unwrap(click) + 1], spawned)
                    /\ last' = [op |-> "select_device", ui |-> TRUE,
                                idx |-> Unwrap(click), spawned |-> spawned,
                                ret |-> "()"]
                    /\ UNCHANGED <<device_names, volume, is_muted, audio_controller,
                                   os_volume, os_muted>>
               ELSE /\ last' = [op |-> "no_input", widget |-> "combo"]
                    /\ UNCHANGED <<appVars, os_volume, os_muted, com_inits, procs>>
            /\ pc' = "mute"
            /\ UNCHANGED phase

UiMuteButton(clicked, found) ==
    /\ phase = "Ready"
    /\ pc = "mute"
    /\ IF clicked
       THEN /\ toggle_mute(found)
            /\ last' = ToggleEvent(TRUE, found)
       ELSE /\ last' = [op |-> "no_input", widget |-> "mute"]
            /\ UNCHANGED <<appVars, os_volume, os_muted, com_inits, procs>>
    /\ pc' = "slider"
    /\ UNCHANGED phase

\* Slider::new(&mut self.volume, 0.0..=1.0) stores the value the user
\* moved the slider to in self.volume; the handler then calls
\* self.set_volume(self.volume).
UiSlider(moved, found) ==
    /\ phase = "Ready"
    /\ pc = "slider"
    /\ IF IsSome(moved)
       THEN /\ volume' = SetVolumeCache(Unwrap(moved), Unwrap(moved), found)
            /\ os_volume' \in SetVolumeSession(Unwrap(moved), found)
            /\ last' = [op |-> "set_volume", ui |-> TRUE, v |-> Unwrap(moved),
                        found |-> found, ret |-> "()"]
            /\ UNCHANGED <<device_names, selected_device_idx, is_muted,
                           audio_controller, os_muted, com_inits, procs>>
       ELSE /\ last' = [op |-> "no_input", widget |-> "slider"]
            /\ UNCHANGED <<appVars, os_volume, os_muted, com_inits, procs>>
    /\ pc' = "idle"
    /\ UNCHANGED phase

SliderMoves == {None} \cup {Some(v) : v \in SliderValues}

(***************************************************************************)
(* The state before main constructs the application.                       *)
(***************************************************************************)
Init ==
    /\ phase = "Uninitialized"
    /\ device_names = <<>>
    /\ selected_device_idx = None
    /\ volume = DefaultVolume
    /\ is_muted = FALSE
    /\ audio_controller = None
    /\ os_volume \in OsVolumes
    /\ os_muted \in BOOLEAN
    /\ com_inits = 0
    /\ procs = <<>>
    /\ pc = "idle"
    /\ last = [op |-> "start"]

(***************************************************************************)
(* The device list, the selection and the default-device switch: the user  *)
(* acts on the refresh button and the combo box, the methods of the device *)
(* list are called with every input, and the spawned processes run.        *)
(***************************************************************************)
NextDevices ==
    \/ \E enum \in Enumerations(DeviceNames), d \in DefaultNames(DeviceNames),
          found \in BOOLEAN : New(enum, d, found)
    \/ \E enum \in Enumerations(DeviceNames) : CallRefreshDevices(enum)
    \/ \E idx \in 0..MaxDevices, spawned \in BOOLEAN : CallSetDefaultDevice(idx, spawned)
    \/ UiBegin(TRUE)
    \/ UiCloseButton
    \/ \E clicked \in BOOLEAN, enum \in Enumerations(DeviceNames) :
          UiRefreshButton(clicked, enum)
    \/ \E click \in ComboClicks, spawned \in BOOLEAN : UiComboBox(click, spawned)
    \/ UiMuteButton(FALSE, TRUE)
    \/ UiSlider(None, TRUE)
    \/ ProcessRuns

\* The master session is left alone: its volume and mute state stay as
\* they are at the start.
InitDevices == Init /\ os_volume = 30 /\ os_muted = FALSE

SpecDevices == InitDevices /\ [][NextDevices]_vars

(***************************************************************************)
(* The master session's volume and mute state: the user acts on the mute   *)
(* button and the slider, the volume and mute methods are called with      *)
(* every input, the session is found or not at each call, and other        *)
(* processes change the session.  The OS reports the two devices, the      *)
(* first of them the default.                                              *)
(***************************************************************************)
TwoDevices == [ok |-> TRUE, devices |-> <<Some(Speakers), Some(Headphones)>>]

NextSession ==
    \/ \E found \in BOOLEAN : New(TwoDevices, Some(Speakers), found)
    \/ \E found \in BOOLEAN : CallUpdateVolume(found)
    \/ \E v \in VolumeInputs, found \in BOOLEAN : CallSetVolume(v, found)
    \/ \E found \in BOOLEAN : CallToggleMute(found)
    \/ \E found \in BOOLEAN : UiBegin(found)
    \/ UiCloseButton
    \/ UiRefreshButton(FALSE, TwoDevices)
    \/ UiComboBox(None, TRUE)
    \/ \E clicked \in BOOLEAN, found \in BOOLEAN : UiMuteButton(clicked, found)
    \/ \E moved \in SliderMoves, found \in BOOLEAN : UiSlider(moved, found)
    \/ OsSetVolume
    \/ OsSetMute

SpecSession == Init /\ [][NextSession]_vars

(***************************************************************************)
(* The command of the shell fallback, for every device name over an        *)
(* alphabet with the quote characters and the backslash: the application   *)
(* is constructed with the OS reporting one device of that name, and the   *)
(* device is switched to.                                                  *)
(***************************************************************************)
Alphabet == {"a", "'", "\"", "\\"}

AllNames == SeqsUpTo(Alphabet, MaxNameLen)

\* The state new leaves when the OS reports the one device (not the
\* default) and the master session is found.
InitEscape ==
    /\ phase = "Ready"
    /\ device_names \in {<<n>> : n \in AllNames}
    /\ selected_device_idx = None
    /\ volume = 30
    /\ is_muted = FALSE
    /\ audio_controller = Some("AudioController")
    /\ os_volume = 30
    /\ os_muted = FALSE
    /\ com_inits = 1
    /\ procs = <<>>
    /\ pc = "idle"
    /\ last = [op |-> "new", enum |-> [ok |-> TRUE, devices |-> <<Some(device_names[1])>>],
               default |-> None, found |-> TRUE]

NextEscape ==
    \/ \E idx \in 0..1, spawned \in BOOLEAN : CallSetDefaultDevice(idx, spawned)
    \/ ProcessRuns

SpecEscape == InitEscape /\ [][NextEscape]_vars

(***************************************************************************)
(* Construction alone, with every answer of the OS: the enumeration, the   *)
(* default device's name, the master session found or not, and the         *)
(* session's volume and mute state.                                        *)
(***************************************************************************)
NextConstruction ==
    \E enum \in Enumerations(DeviceNames), d \in DefaultNames(DeviceNames),
       found \in BOOLEAN : New(enum, d, found)

SpecConstruction == Init /\ [][NextConstruction]_vars

(***************************************************************************)
(* Properties.                                                             *)
(***************************************************************************)

\* C1: in every reachable state the selection is None or an index strictly
\* less than the length of the device list.
C1_SelectionInBounds ==
    \/ selected_device_idx = None
    \/ /\ Unwrap(selected_device_idx) >= 0
       /\ Unwrap(selected_device_idx) < Len(device_names)

\* A refresh has just shrunk the list to one device while the second row
\* was selected, and has cleared the selection.
C1_Witness ==
    /\ last.op = "refresh_devices"
    /\ last.selection_before = Some(1)
    /\ Len(device_names) = 1
    /\ selected_device_idx = None

\* C2: from the list Speakers, Headphones with the first row selected, a
\* refresh during which the OS reports only Headphones ends with the list
\* Headphones and no selection.
C2_RefreshClearsVanishedSelection ==
    [][(/\ device_names = <<Speakers, Headphones>>
        /\ selected_device_idx = Some(0)
        /\ last'.op = "refresh_devices"
        /\ last'.enum = [ok |-> TRUE, devices |-> <<Some(Headphones)>>])
         => (/\ device_names' = <<Headphones>>
             /\ selected_device_idx' = None)]_vars

\* C3: after set_volume(v) with the master session found, the session's
\* volume and the cached volume both equal v clamped to the range 0.0..1.0.
C3_SetVolumeClamps ==
    (last.op = "set_volume" /\ last.found)
        => (volume = Clamp(last.v) /\ os_volume = Clamp(last.v))

\* C4 as stated: after two successive toggle_mute calls that found the
\* session, the session's mute state and the cached flag both have the
\* values they had before the first call.
C4_ToggleTwiceRestoresBoth ==
    (last.op = "toggle_mute" /\ last.n = 2)
        => (os_muted = last.os0 /\ is_muted = last.cache0)

\* C4 as amended: after two successive toggle_mute calls that found the
\* session, the session's mute state has the value it had before the first
\* call and the cached flag equals it; so the cached flag is restored too
\* whenever it agreed with the session before the first call.
C4_ToggleTwiceRestoresSession ==
    (last.op = "toggle_mute" /\ last.n = 2)
        => /\ os_muted = last.os0
           /\ is_muted = last.os0
           /\ (last.cache0 = last.os0 => is_muted = last.cache0)

\* Two successive toggle_mute calls have run, the first of them entered
\* with a cached flag another process had made stale.
C4_Witness ==
    /\ last.op = "toggle_mute"
    /\ last.n = 2
    /\ last.cache0 # last.os0

\* C5: set_default_device(idx) with idx at or beyond the length of the
\* device list changes nothing of the application's state, initializes no
\* COM (no native attempt) and spawns no process.
C5_OutOfBoundsIsNoOp ==
    [][(last'.op = "set_default_device" /\ last'.idx >= Len(device_names))
         => UNCHANGED <<appVars, os_volume, os_muted, com_inits, procs>>]_vars

\* set_default_device has been called with the length of a list of two
\* devices as index.
C5_Witness ==
    /\ last.op = "set_default_device"
    /\ Len(device_names) = 2
    /\ last.idx = Len(device_names)

\* Whether a statement of the command attempted its strategy.
Attempted(outcome) == outcome \in {"failed", "success"}

\* C6: when the native strategy has failed and no shell strategy has
\* succeeded, the switch call has returned the exhausted outcome to its
\* caller.
C6_ExhaustedIsReported ==
    (/\ last.op = "powershell"
     /\ \A k \in 1..3 : last.outcomes[k] # "success")
        => last.ret = "SwitchExhausted"

\* C7: a strategy is attempted only if no earlier strategy has reported
\* success.
C7_StopsAtFirstSuccess ==
    last.op = "powershell"
        => \A k \in 1..3 :
              (\E j \in 1..(k - 1) : last.outcomes[j] = "success")
                  => ~Attempted(last.outcomes[k])

RECURSIVE ReadSingleQuoted(_, _, _)
\* Reading a single-quoted argument of text from position i, just after
\* its opening quote, with acc read so far: two quotes stand for one quote,
\* one quote ends the argument, any other character stands for itself.
\* The answer is the argument and the position of its closing quote (0 if
\* the text ends first).
ReadSingleQuoted(text, i, acc) ==
    IF i > Len(text) THEN [value |-> acc, end |-> 0]
    ELSE IF text[i] = "'"
         THEN IF i < Len(text) /\ text[i + 1] = "'"
              THEN ReadSingleQuoted(text, i + 2, Append(acc, "'"))
              ELSE [value |-> acc, end |-> i]
         ELSE ReadSingleQuoted(text, i + 1, Append(acc, text[i]))

RECURSIVE ReadDoubleQuoted(_, _, _)
\* Reading a double-quoted argument in the dialect the escaping is written
\* for: a backslash followed by a double quote stands for a double quote,
\* a double quote alone ends the argument, any other character stands for
\* itself.
ReadDoubleQuoted(text, i, acc) ==
    IF i > Len(text) THEN [value |-> acc, end |-> 0]
    ELSE IF text[i] = "\\" /\ i < Len(text) /\ text[i + 1] = "\""
         THEN ReadDoubleQuoted(text, i + 2, Append(acc, "\""))
         ELSE IF text[i] = "\""
              THEN [value |-> acc, end |-> i]
              ELSE ReadDoubleQuoted(text, i + 1, Append(acc, text[i]))

\* The argument read back is the wanted one and is followed by the literal
\* text that follows it in the format string.
ReadsBack(text, read, wanted, suffix) ==
    /\ read.end > 0
    /\ read.value = wanted
    /\ read.end < Len(text)
    /\ text[read.end + 1] = suffix

\* The three quoted arguments of a command read back as the device name
\* (between wildcards in the third), each ending where the format string
\* closes it.
CommandReadsBack(command, name) ==
    LET r1 == ReadSingleQuoted(command, 3, <<>>)
    IN  /\ ReadsBack(command, r1, name, Cmd1Suffix)
        /\ LET r2 == ReadDoubleQuoted(command, r1.end + 5, <<>>)
           IN  /\ ReadsBack(command, r2, name, Cmd2Suffix)
               /\ LET r3 == ReadSingleQuoted(command, r2.end + 5, <<>>)
                  IN  ReadsBack(command, r3, <<"*">> \o name \o <<"*">>, Cmd3Suffix)

\* C8: in the command of every spawned process, each quoted argument reads
\* back, by the quoting rules of its dialect, as exactly the device name.
C8_ArgumentsReadBack ==
    \A i \in 1..Len(procs) : CommandReadsBack(procs[i].command, procs[i].name)

\* C9: update_volume called while the master session is not found leaves
\* the cached volume and the cached mute flag as they were.
C9_UnresolvedKeepsCache ==
    [][(last'.op = "update_volume" /\ ~last'.found)
         => (volume' = volume /\ is_muted' = is_muted)]_vars

\* update_volume has run without finding the session, with a cache that
\* holds neither default and differs from the session.
C9_Witness ==
    /\ last.op = "update_volume"
    /\ ~last.found
    /\ volume # DefaultVolume
    /\ is_muted
    /\ volume # os_volume
    /\ is_muted # os_muted

\* C10: in a tick where the user moves the slider while the master session
\* is not found, the cached volume after the step is the cached volume
\* before it.
C10_SliderKeepsCacheWhenUnresolved ==
    [][(last'.op = "set_volume" /\ last'.ui /\ ~last'.found)
         => volume' = volume]_vars

\* C11: a click on a row of the combo box changes the selection only after
\* a switch that is not exhausted: when the native strategy has failed and
\* the process of the shell strategies could not be spawned, the selection
\* stays as it was.
C11_SelectionWaitsForSwitch ==
    [][(last'.op = "select_device" /\ ~last'.spawned)
         => selected_device_idx' = selected_device_idx]_vars

\* The operations on the master session's volume and mute state.
SessionOps == {"update_volume", "set_volume", "toggle_mute"}

\* C12: a volume or mute operation that has not found the master session
\* has returned an "unavailable" outcome to its caller.
C12_UnavailableIsReported ==
    (last.op \in SessionOps /\ ~last.found) => last.ret = "unavailable"

\* C13: toggle_mute with the session found sets the session's mute state
\* to the negation of what it was just before the call, whatever the cached
\* flag held, and the cached flag to the session's new state.
C13_ToggleFlipsSession ==
    [][(last'.op = "toggle_mute" /\ last'.found)
         => (os_muted' = ~os_muted /\ is_muted' = os_muted')]_vars

\* toggle_mute has run, from the mute button, on a session muted by another
\* process while the cached flag still said unmuted.
C13_Witness ==
    /\ last.op = "toggle_mute"
    /\ last.ui
    /\ last.found
    /\ last.n = 1
    /\ last.os0 = TRUE
    /\ last.cache0 = FALSE

\* C14: after construction the selection is Some(i) exactly when the OS
\* reports a default device whose name resolves and is the name of a listed
\* device, i being the first index with that name, and None otherwise; the
\* cached volume and mute flag are the session's if it was found, 0.5 and
\* false otherwise.
C14_ConstructionSeedsState ==
    last.op = "new"
        => /\ IsSome(selected_device_idx)
                <=> /\ IsSome(last.default)
                    /\ \E i \in 1..Len(device_names) :
                          device_names[i] = Unwrap(last.default)
           /\ IsSome(selected_device_idx)
                => LET i == Unwrap(selected_device_idx) + 1
                   IN  /\ i \in 1..Len(device_names)
                       /\ device_names[i] = Unwrap(last.default)
                       /\ \A j \in 1..(i - 1) : device_names[j] # Unwrap(last.default)
           /\ volume = (IF last.found THEN os_volume ELSE DefaultVolume)
           /\ is_muted = (IF last.found THEN os_muted ELSE FALSE)

\* The application has been constructed with the default device second in
\* the list and the master session found, muted.
C14_Witness ==
    /\ last.op = "new"
    /\ selected_device_idx = Some(1)
    /\ last.found
    /\ is_muted

RECURSIVE NamesThatResolve(_)
\* The names of the devices of an enumeration whose name resolves, in the
\* order of the enumeration.
NamesThatResolve(devices) ==
    IF devices = <<>> THEN <<>>
    ELSE (IF Head(devices) = None THEN <<>> ELSE <<Head(devices)[1]>>)
             \o NamesThatResolve(Tail(devices))

\* C15: after construction and after every refresh_devices the device list
\* is the names that resolve among the devices the OS enumerated, in the
\* OS's order; if the enumeration fails the list is empty, a refresh leaves
\* no selection, and the application goes on.
C15_ListIsResolvedEnumeration ==
    last.op \in {"new", "refresh_devices"}
        => /\ phase = "Ready"
           /\ last.enum.ok => device_names = NamesThatResolve(last.enum.devices)
           /\ ~last.enum.ok
                => /\ device_names = <<>>
                   /\ last.op = "refresh_devices" => selected_device_idx = None

\* A refresh has run on an enumeration whose first device has no name that
\* resolves, and has listed the second device alone.
C15_Witness ==
    /\ last.op = "refresh_devices"
    /\ last.enum = [ok |-> TRUE, devices |-> <<None, Some(Headphones)>>]
    /\ device_names = <<Headphones>>

\* C16: every redraw tick begins with update_volume, and update_volume with
\* the session found leaves the cached volume and mute flag equal to the
\* session's, whatever they were before.
C16_TickBeginsWithRefresh ==
    [][/\ (pc = "idle" /\ pc' # "idle") => (last'.op = "update_volume" /\ last'.ui)
       /\ (last'.op = "update_volume" /\ last'.found)
            => (volume' = os_volume' /\ is_muted' = os_muted')]_vars

\* A tick has begun with the session found and has replaced a cached
\* volume and a cached mute flag that both differed from the session's.
C16_Witness ==
    /\ last.op = "update_volume"
    /\ last.ui
    /\ last.found
    /\ pc = "title"
    /\ last.cache_before[1] # volume
    /\ last.cache_before[2] # is_muted

\* The operations that switch the default device.
SwitchOps == {"set_default_device", "select_device"}

\* C17: a switch call does not alter the device list, and when it has
\* spawned the process of the shell strategies it returns with the process
\* still running and the application ready for its next operation.
C17_SwitchReturnsAtSpawn ==
    [][last'.op \in SwitchOps
         => /\ device_names' = device_names
            /\ (last'.idx < Len(device_names) /\ last'.spawned)
                 => /\ Len(procs') = Len(procs) + 1
                    /\ phase' = "Ready"]_vars

\* A second switch has been dispatched while the process of the first was
\* still running.
C17_Witness ==
    /\ last.op \in SwitchOps
    /\ last.spawned
    /\ Len(procs) = 2

\* C18: COM is initialized exactly once, by the construction, and there is
\* at most one session controller.
C18_ComInitializedOnce ==
    /\ com_inits = (IF phase = "Uninitialized" THEN 0 ELSE 1)
    /\ Len(audio_controller) <= 1

\* C19: every switch request for a device of the list makes the native
\* attempt, which fails, and then the spawn of one process for the shell
\* strategies: the process of that device's command is running after the
\* call if the spawn succeeded, and no other process was added.
C19_EverySwitchFallsBack ==
    [][(last'.op \in SwitchOps /\ last'.idx < Len(device_names))
         => /\ com_inits' = com_inits + 1
            /\ procs' = IF last'.spawned
                        THEN Append(procs, SpawnedProcess(device_names[last'.idx + 1]))
                        ELSE procs]_vars

\* The second row of the combo box has been clicked and the process for
\* Headphones spawned.
C19_Witness ==
    /\ last.op = "select_device"
    /\ last.idx = 1
    /\ last.spawned
    /\ Len(procs) = 1
    /\ procs[1].name = Headphones

\* C20: refresh_devices leaves the cached volume, the cached mute flag and
\* the session controller as they were, and leaves the selection as it was
\* or clears it.
C20_RefreshFrame ==
    [][last'.op = "refresh_devices"
         => /\ UNCHANGED <<volume, is_muted, audio_controller>>
            /\ \/ selected_device_idx' = selected_device_idx
               \/ selected_device_idx' = None]_vars

\* A refresh from the button has listed two devices again and kept the
\* selection of the second row.
C20_Witness ==
    /\ last.op = "refresh_devices"
    /\ last.ui
    /\ last.selection_before = Some(1)
    /\ selected_device_idx = Some(1)
    /\ Len(device_names) = 2

====
